---- MODULE Spec2Model ----
(***************************************************************************)
(* Model of the MHT-CET cutoff viewer (client/pages/Index.tsx): the data   *)
(* source fallback chain of fetchData, the filter/search/sort/paginate     *)
(* pipeline (filteredAndSortedData, paginatedData, totalPages) and the UI  *)
(* handlers that change the filter, sort and page state.                   *)
(*                                                                         *)
(* Strings are sequences of one-character strings.  Percentiles are kept   *)
(* in hundredths (the percentile input has step 0.01), so 95.5 is 9550.    *)
(***************************************************************************)
EXTENDS Integers, Sequences, FiniteSets, TLC

(***************************************************************************)
(* Bounds of the model.                                                    *)
(***************************************************************************)
\* longest dataset built freely from RecordPool
MaxLen == 2
\* length of the generated multi-page dataset
BigLen == 61
\* page numbers the pagination claims are evaluated for
MaxPage == 4

(***************************************************************************)
(* Program constants.                                                      *)
(***************************************************************************)
itemsPerPage == 20
\* hundredths: the resolution of the percentile input (step="0.01")
PctScale == 100

Null == "null"
AllFailedMessage == "All data sources failed. Please try again later."

\* absent / undefined string field of a record
Undefined == <<"undefined">>

(***************************************************************************)
(* The texts a user can type.                                              *)
(***************************************************************************)
\* what the user types, with the number it denotes
RankEntries ==
    { [text |-> <<>>, set |-> FALSE, value |-> 0],
      [text |-> <<"1", "0">>, set |-> TRUE, value |-> 10],
      [text |-> <<"1", "0", "0", "0">>, set |-> TRUE, value |-> 1000] }

PercentileEntries ==
    { [text |-> <<>>, set |-> FALSE, value |-> 0],
      [text |-> <<"0">>, set |-> TRUE, value |-> 0],
      [text |-> <<"9", "0">>, set |-> TRUE, value |-> 9000],
      [text |-> <<"9", "5", ".", "5">>, set |-> TRUE, value |-> 9550] }

RankInputs == {e.text : e \in RankEntries}
PercentileInputs == {e.text : e \in PercentileEntries}
\* what the user types in the search box, with the text it is matched as
SearchEntries ==
    { [text |-> <<>>, applied |-> FALSE, needle |-> <<>>],
      [text |-> <<" ">>, applied |-> FALSE, needle |-> <<>>],
      [text |-> <<" ", "a", "B", " ">>, applied |-> TRUE, needle |-> <<"a", "b">>] }

SearchInputs == {e.text : e \in SearchEntries}

(***************************************************************************)
(* String helpers: String.prototype.trim, toLowerCase, includes,           *)
(* parseInt and parseFloat.                                                *)
(***************************************************************************)
DigitChars == <<"0", "1", "2", "3", "4", "5", "6", "7", "8", "9">>
Digits == {DigitChars[i] : i \in 1..10}
DigitVal(c) == (CHOOSE i \in 1..10 : DigitChars[i] = c) - 1

UpperToLower == ("A" :> "a") @@ ("B" :> "b") @@ ("C" :> "c") @@ ("D" :> "d")

toLowerCase(s) ==
    [i \in 1..Len(s) |-> IF s[i] \in DOMAIN UpperToLower THEN UpperToLower[s[i]] ELSE s[i]]

RECURSIVE trimStart(_)
trimStart(s) ==
    IF s # <<>> /\ Head(s) = " " THEN trimStart(Tail(s)) ELSE s

RECURSIVE trimEnd(_)
trimEnd(s) ==
    IF s # <<>> /\ s[Len(s)] = " " THEN trimEnd(SubSeq(s, 1, Len(s) - 1)) ELSE s

trim(s) == trimEnd(trimStart(s))

includes(hay, needle) ==
    \E i \in 0..(Len(hay) - Len(needle)) : SubSeq(hay, i + 1, i + Len(needle)) = needle

\* the longest prefix of s made of decimal digits
RECURSIVE DigitsPrefix(_)
DigitsPrefix(s) ==
    IF s = <<>> \/ Head(s) \notin Digits THEN <<>>
    ELSE <<Head(s)>> \o DigitsPrefix(Tail(s))

RECURSIVE DigitsToNumber(_)
DigitsToNumber(ds) ==
    IF ds = <<>> THEN 0
    ELSE 10 * DigitsToNumber(SubSeq(ds, 1, Len(ds) - 1)) + DigitVal(ds[Len(ds)])

\* parseInt on the value of a type="number" input: the leading digits, anything
\* from the first non-digit on is ignored
parseIntText(s) == DigitsToNumber(DigitsPrefix(s))

\* parseInt, evaluated once for every text the rank input can hold
parseIntTable == [t \in RankInputs |-> parseIntText(t)]

parseInt(s) == parseIntTable[s]

\* parseFloat, in hundredths: integer part, then an optional "." and fraction
parseFloatText(s) ==
    LET ip   == DigitsPrefix(s)
        rest == SubSeq(s, Len(ip) + 1, Len(s))
        fp   == IF rest # <<>> /\ Head(rest) = "." THEN DigitsPrefix(Tail(rest)) ELSE <<>>
        d1   == IF Len(fp) >= 1 THEN DigitVal(fp[1]) ELSE 0
        d2   == IF Len(fp) >= 2 THEN DigitVal(fp[2]) ELSE 0
    IN  DigitsToNumber(ip) * PctScale + 10 * d1 + d2

\* parseFloat, evaluated once for every text the percentile input can hold
parseFloatTable == [t \in PercentileInputs |-> parseFloatText(t)]

parseFloat(s) == parseFloatTable[s]

\* searchFilter.toLowerCase().trim(), evaluated once for every text the search
\* box can hold
searchLowerTable == [t \in SearchInputs |-> trim(toLowerCase(t))]

(***************************************************************************)
(* Array helpers: Array.prototype.slice, Math.ceil of a quotient, and the  *)
(* stable Array.prototype.sort with the component's comparator.            *)
(***************************************************************************)
Min(a, b) == IF a <= b THEN a ELSE b
Max(a, b) == IF a >= b THEN a ELSE b

slice(s, start, end) == SubSeq(s, Min(start, Len(s)) + 1, Min(end, Len(s)))

MathCeilDiv(n, d) == IF n % d = 0 THEN n \div d ELSE (n \div d) + 1

\* (a, b) => sortOrder === "asc" ? aValue - bValue : bValue - aValue
compare(a, b, field, order) ==
    IF order = "asc" THEN a[field] - b[field] ELSE b[field] - a[field]

\* a sort that moves a record in front of the records it compares equal to
sort_unstable(s, field, order) ==
    LET before(a, b) == compare(a, b, field, order) <= 0
    IN  SortSeq(s, before)

\* Array.prototype.sort: a stable sort, a goes in front of b only when the
\* comparator is negative for (a, b)
sort(s, field, order) ==
    LET before(a, b) == compare(a, b, field, order) < 0
    IN  SortSeq(s, before)

(***************************************************************************)
(* The pipeline.                                                           *)
(***************************************************************************)
\* a callback that requires every entered threshold to be met
thresholdMatches_and(item, rankF, pctF) ==
    /\ (pctF # <<>> => item.Percentile <= parseFloat(pctF))
    /\ (rankF # <<>> => item.Rank >= parseInt(rankF))

\* the callback of data.filter: matches starts false and is or-ed with the
\* test of every threshold the user has entered
thresholdMatches(item, rankF, pctF) ==
    LET m0 == FALSE
        m1 == IF pctF # <<>> THEN m0 \/ item.Percentile <= parseFloat(pctF) ELSE m0
        m2 == IF rankF # <<>> THEN m1 \/ item.Rank >= parseInt(rankF) ELSE m1
    IN  m2

\* a name that is used as it is, absent or not
orEmpty_asIs(name) == name

\* item["Institute Name"] || "": an absent or empty name becomes ""
orEmpty(name) == IF name = Undefined \/ name = <<>> THEN <<>> ELSE name

\* a search callback that compares the names as they are written
searchMatches_caseSensitive(item, searchF) ==
    LET searchLower   == searchLowerTable[searchF]
        instituteName == orEmpty(item.InstituteName)
        courseName    == orEmpty(item.CourseName)
    IN  \/ includes(instituteName, searchLower)
        \/ includes(courseName, searchLower)

\* the callback of the search filter
searchMatches(item, searchF) ==
    LET searchLower   == searchLowerTable[searchF]
        instituteName == orEmpty(item.InstituteName)
        courseName    == orEmpty(item.CourseName)
    IN  \/ includes(toLowerCase(instituteName), searchLower)
        \/ includes(toLowerCase(courseName), searchLower)

\* a threshold stage in which an entered rank makes the percentile ignored
thresholdStage_rankFirst(items, rankF, pctF) ==
    LET keep(item) == thresholdMatches(item, rankF, IF rankF # <<>> THEN <<>> ELSE pctF)
    IN  IF rankF # <<>> \/ pctF # <<>> THEN SelectSeq(items, keep) ELSE items

\* if (rankFilter || percentileFilter) filtered = data.filter(...)
thresholdStage(items, rankF, pctF) ==
    LET keep(item) == thresholdMatches(item, rankF, pctF)
    IN  IF rankF # <<>> \/ pctF # <<>> THEN SelectSeq(items, keep) ELSE items

\* a search stage that hands on the institute names as it compared them,
\* in lower case
searchStage_lowered(items, searchF) ==
    LET keep(item) == searchMatches(item, searchF)
        kept == SelectSeq(items, keep)
    IN  IF trim(searchF) # <<>>
        THEN [i \in DOMAIN kept |->
                 [kept[i] EXCEPT !.InstituteName = toLowerCase(orEmpty(@))]]
        ELSE items

\* if (searchFilter.trim()) filtered = filtered.filter(...)
searchStage(items, searchF) ==
    LET keep(item) == searchMatches(item, searchF)
    IN  IF trim(searchF) # <<>> THEN SelectSeq(items, keep) ELSE items

\* the search callback calls toLowerCase on both names, the course name only
\* when the institute name does not match; on undefined that is a TypeError
searchThrows(item, searchF) ==
    LET searchLower   == searchLowerTable[searchF]
        instituteName == orEmpty(item.InstituteName)
        courseName    == orEmpty(item.CourseName)
    IN  \/ instituteName = Undefined
        \/ /\ ~includes(toLowerCase(instituteName), searchLower)
           /\ courseName = Undefined

\* the useMemo callback throws when its search callback does
pipelineThrows(items, rankF, pctF, searchF) ==
    LET throwsOn(item) == searchThrows(item, searchF)
    IN  /\ trim(searchF) # <<>>
        /\ SelectSeq(thresholdStage(items, rankF, pctF), throwsOn) # <<>>

\* a pipeline that starts from data itself: with no filter applied the sort
\* reorders the dataset in place
dataAfterPipeline_alias(items, rankF, pctF, searchF, field, order) ==
    IF rankF = <<>> /\ pctF = <<>> /\ trim(searchF) = <<>>
    THEN sort(items, field, order)
    ELSE items

\* what the useMemo callback leaves in data: filtered starts as the copy
\* [...data] and data.filter builds a new array, so the sort never reaches data
dataAfterPipeline(items, rankF, pctF, searchF, field, order) == items

\* a pipeline whose search stage filters data instead of filtered
FilteredAndSortedData_searchAll(items, rankF, pctF, searchF, field, order) ==
    sort(IF trim(searchF) # <<>> THEN searchStage(items, searchF)
         ELSE thresholdStage(items, rankF, pctF), field, order)

FilteredAndSortedData(items, rankF, pctF, searchF, field, order) ==
    sort(searchStage(thresholdStage(items, rankF, pctF), searchF), field, order)

\* a slice that starts one page too far
PaginatedData_offByOne(filtered, page) ==
    LET startIndex == page * itemsPerPage
    IN  slice(filtered, startIndex, startIndex + itemsPerPage)

PaginatedData(filtered, page) ==
    LET startIndex == (page - 1) * itemsPerPage
    IN  slice(filtered, startIndex, startIndex + itemsPerPage)

\* a page count that rounds down
TotalPages_floor(filtered) == Len(filtered) \div itemsPerPage

\* Math.ceil(filteredAndSortedData.length / itemsPerPage)
TotalPages(filtered) == MathCeilDiv(Len(filtered), itemsPerPage)

(***************************************************************************)
(* Inputs: the records a source can deliver and the texts a user can type. *)
(***************************************************************************)
Rec(rank, pct, code, inst, course) ==
    [Rank |-> rank, Percentile |-> pct, ChoiceCode |-> code,
     InstituteName |-> inst, CourseName |-> course]

RecordPool ==
    { Rec(2,    9950, <<"A", "2">>, <<"A", "b">>, Undefined),
      Rec(500,  9500, <<"A", "4">>, Undefined,    Undefined),
      Rec(5000, 9500, <<"A", "5">>, Undefined,    <<"d", " ", "a", "B">>),
      Rec(2,    9000, <<"A", "6">>, <<"b", "C">>, <<"c", "D">>) }

\* the three-record dataset of the end-to-end scenario
ExampleData ==
    << Rec(1,     9990, <<"A", "1">>, <<"a", "b">>, <<"C", "D">>),
       Rec(2,     9950, <<"A", "2">>, <<"A", "b">>, Undefined),
       Rec(50000, 1000, <<"A", "3">>, <<>>,         <<"B", " ", "c">>) >>

\* a dataset of several pages, unsorted, with repeated ranks and percentiles;
\* its first 20 records have a rank below 10, the others a rank from 10 up
BigData ==
    [i \in 1..BigLen |->
        Rec(IF i <= 20 THEN 1 + ((i * 7) % 9) ELSE 10 + ((i * 7) % 20),
            PctScale * (60 + ((i * 3) % 40)),
            <<DigitChars[(i \div 10) + 1], DigitChars[(i % 10) + 1]>>,
            IF i % 3 = 0 THEN <<"A", "b">> ELSE <<"c", "D">>,
            IF i % 2 = 0 THEN <<"a", "B">> ELSE Undefined)]

SeqsUpTo(S, n) == UNION {[1..k -> S] : k \in 0..n}

Datasets == SeqsUpTo(RecordPool, MaxLen) \cup {ExampleData, BigData}

SortFields == {"Rank", "Percentile"}
SortOrders == {"asc", "desc"}

\* the candidates of fetchData in the order the code tries them
Candidates == <<"server", "allorigins", "corsproxy", "codetabs", "direct">>

\* what a parsed body can be: an array of records or some other JSON value
ArrayBody(items) == [kind |-> "array", items |-> items]
NonArrayBody == [kind |-> "object", items |-> <<>>]
Bodies == {ArrayBody(d) : d \in Datasets} \cup {NonArrayBody}

\* the methods a request to the server can have
Methods == {"GET", "POST", "OPTIONS"}

\* no body has been parsed
NoData == [kind |-> "none", items |-> <<>>]

\* { error: ..., message: ... }
ErrorBody(error_, message) == [kind |-> "error", error |-> error_, message |-> message]

\* a response as res sends it
Response(status, body) == [status |-> status, body |-> body]

(***************************************************************************)
(* State.                                                                  *)
(***************************************************************************)
VARIABLES
    data,                   \* useState<CutoffData[]>([])
    loading,                \* useState(true)
    error,                  \* useState<string | null>(null)
    rankFilter,             \* useState<string>("")
    percentileFilter,       \* useState<string>("")
    searchFilter,           \* useState<string>("")
    sortField,              \* useState<SortField>("Rank")
    sortOrder,              \* useState<SortOrder>("asc")
    currentPage,            \* useState(1)
    filteredAndSortedData,  \* useMemo value of the last render
    paginatedData,          \* useMemo value of the last render
    totalPages,             \* value of the last render
    crashed,                \* the last render threw: nothing is on screen
    pc,                     \* where fetchData is
    cand,                   \* index in Candidates of the candidate being tried
    requests,               \* the fetch calls issued since the page was loaded
    settled,                \* how many of them have settled
    lastOutcome,            \* how the latest settled candidate ended
    route,                  \* the server handler that has the request
    method,                 \* req.method
    spc,                    \* where that handler is
    upstreamCalls,          \* fetch calls of the handler for this request
    upstreamOutcome,        \* how the upstream fetch ended
    upstreamData,           \* const data = await response.json()
    responses               \* what res has sent for this request

clientVars == <<data, loading, error, rankFilter, percentileFilter, searchFilter,
                sortField, sortOrder, currentPage, filteredAndSortedData,
                paginatedData, totalPages, crashed, pc, cand, requests, settled,
                lastOutcome>>

serverVars == <<route, method, spc, upstreamCalls, upstreamOutcome, upstreamData,
                responses>>

vars == <<clientVars, serverVars>>

fetchVars == <<pc, cand, requests, settled, lastOutcome>>
loadVars == <<data, loading, error>>
filterVars == <<rankFilter, percentileFilter, searchFilter>>
sortVars == <<sortField, sortOrder>>

\* the component body run on the dataset d: the two useMemo values and
\* totalPages are recomputed from the state the render sees; the render throws
\* when d cannot be spread or the search callback throws, and React then
\* takes the page down
Render(d) ==
    LET throws == \/ d.kind # "array"
                  \/ pipelineThrows(d.items, rankFilter', percentileFilter', searchFilter')
    IN  /\ crashed' = throws
        /\ UNCHANGED serverVars
        /\ IF throws
           THEN /\ data' = d
                /\ UNCHANGED <<filteredAndSortedData, paginatedData, totalPages>>
           ELSE /\ data' = [d EXCEPT !.items =
                                dataAfterPipeline(d.items, rankFilter', percentileFilter',
                                                  searchFilter', sortField', sortOrder')]
                /\ filteredAndSortedData' =
                       FilteredAndSortedData(d.items, rankFilter', percentileFilter',
                                             searchFilter', sortField', sortOrder')
                /\ paginatedData' = PaginatedData(filteredAndSortedData', currentPage')
                /\ totalPages' = TotalPages(filteredAndSortedData')

\* the table, the filters and the pagination are on screen
Rendered == ~loading /\ error = Null /\ ~crashed

Init ==
    /\ data = ArrayBody(<<>>)
    /\ loading = TRUE
    /\ error = Null
    /\ rankFilter = <<>>
    /\ percentileFilter = <<>>
    /\ searchFilter = <<>>
    /\ sortField = "Rank"
    /\ sortOrder = "asc"
    /\ currentPage = 1
    /\ filteredAndSortedData = <<>>
    /\ paginatedData = <<>>
    /\ totalPages = 0
    /\ crashed = FALSE
    /\ pc = "mount"
    /\ cand = 0
    /\ requests = <<>>
    /\ settled = 0
    /\ lastOutcome = "none"
    /\ route = "none"
    /\ method = "none"
    /\ spc = "idle"
    /\ upstreamCalls = 0
    /\ upstreamOutcome = "none"
    /\ upstreamData = NoData
    /\ responses = <<>>

(***************************************************************************)
(* fetchData.                                                              *)
(***************************************************************************)
\* useEffect: setLoading(true) and the first fetch, of /api/cutoffs
Mount ==
    /\ pc = "mount"
    /\ loading' = TRUE
    /\ cand' = 1
    /\ requests' = Append(requests, Candidates[1])
    /\ pc' = "await_fetch"
    /\ UNCHANGED <<error, filterVars, sortVars, currentPage, settled, lastOutcome>>
    /\ Render(data)

\* a chain without the finally block: the error is shown, loading stays on
Advance_noFinally(outcome) ==
    /\ lastOutcome' = outcome
    /\ settled' = settled + 1
    /\ IF cand < Len(Candidates)
       THEN /\ cand' = cand + 1
            /\ requests' = Append(requests, Candidates[cand + 1])
            /\ pc' = "await_fetch"
            /\ UNCHANGED <<loading, error>>
       ELSE /\ error' = AllFailedMessage
            /\ pc' = "done"
            /\ UNCHANGED <<loading, cand, requests>>
    /\ UNCHANGED <<filterVars, sortVars, currentPage>>
    /\ Render(data)

\* the candidate being tried has failed: the next one is fetched, and after
\* the last one the error is thrown, caught and shown
Advance(outcome) ==
    /\ lastOutcome' = outcome
    /\ settled' = settled + 1
    /\ IF cand < Len(Candidates)
       THEN /\ cand' = cand + 1
            /\ requests' = Append(requests, Candidates[cand + 1])
            /\ pc' = "await_fetch"
            /\ UNCHANGED <<loading, error>>
       ELSE /\ error' = AllFailedMessage
            /\ loading' = FALSE
            /\ pc' = "done"
            /\ UNCHANGED <<cand, requests>>
    /\ UNCHANGED <<filterVars, sortVars, currentPage>>
    /\ Render(data)

\* a setData that is not followed by return: the chain goes on
Deliver_noReturn(body) ==
    /\ lastOutcome' = body.kind
    /\ settled' = settled + 1
    /\ IF cand < Len(Candidates)
       THEN /\ cand' = cand + 1
            /\ requests' = Append(requests, Candidates[cand + 1])
            /\ pc' = "await_fetch"
            /\ UNCHANGED <<loading, error>>
       ELSE /\ loading' = FALSE
            /\ pc' = "done"
            /\ UNCHANGED <<error, cand, requests>>
    /\ UNCHANGED <<filterVars, sortVars, currentPage>>
    /\ Render(body)

\* setData(jsonData); return; and the finally block
Deliver(body) ==
    /\ lastOutcome' = body.kind
    /\ settled' = settled + 1
    /\ loading' = FALSE
    /\ pc' = "done"
    /\ UNCHANGED <<error, cand, requests, filterVars, sortVars, currentPage>>
    /\ Render(body)

\* await fetch(...) throws
FetchRejects ==
    /\ pc = "await_fetch"
    /\ Advance("rejected")

\* await fetch(...) returns a response
FetchResolves(ok) ==
    /\ pc = "await_fetch"
    /\ IF ok
       THEN /\ pc' = "await_json"
            /\ UNCHANGED <<loading, error, filterVars, sortVars, currentPage,
                           cand, requests, settled, lastOutcome>>
            /\ Render(data)
       ELSE Advance("notok")

\* await response.json() throws, or JSON.parse(proxyData.contents) does
JsonThrows ==
    /\ pc = "await_json"
    /\ Advance("throws")

\* await response.json() returns (for allorigins: its contents are parsed)
JsonResolves(body) ==
    /\ pc = "await_json"
    /\ IF Candidates[cand] \in {"server", "direct"}
       THEN Deliver(body)
       ELSE IF body.kind = "array" THEN Deliver(body) ELSE Advance("object")

\* a retry that only fetches again the candidate that failed last
Retry_resume ==
    /\ ~loading
    /\ error # Null
    /\ loading' = TRUE
    /\ error' = Null
    /\ pc' = "await_fetch"
    /\ requests' = <<Candidates[cand]>>
    /\ settled' = 0
    /\ lastOutcome' = "none"
    /\ UNCHANGED <<cand, filterVars, sortVars, currentPage>>
    /\ Render(data)

\* the Retry button of the error view: window.location.reload()
Retry ==
    /\ ~loading
    /\ error # Null
    /\ data' = ArrayBody(<<>>)
    /\ loading' = TRUE
    /\ error' = Null
    /\ rankFilter' = <<>>
    /\ percentileFilter' = <<>>
    /\ searchFilter' = <<>>
    /\ sortField' = "Rank"
    /\ sortOrder' = "asc"
    /\ currentPage' = 1
    /\ filteredAndSortedData' = <<>>
    /\ paginatedData' = <<>>
    /\ totalPages' = 0
    /\ crashed' = FALSE
    /\ pc' = "mount"
    /\ cand' = 0
    /\ requests' = <<>>
    /\ settled' = 0
    /\ lastOutcome' = "none"
    /\ UNCHANGED serverVars

(***************************************************************************)
(* The handlers of the rendered page.                                      *)
(***************************************************************************)
\* onChange={(e) => setRankFilter(e.target.value)}
SetRankFilter(text) ==
    /\ Rendered
    /\ rankFilter' = text
    /\ UNCHANGED <<loading, error, percentileFilter, searchFilter, sortVars,
                   currentPage, fetchVars>>
    /\ Render(data)

\* onChange={(e) => setPercentileFilter(e.target.value)}
SetPercentileFilter(text) ==
    /\ Rendered
    /\ percentileFilter' = text
    /\ UNCHANGED <<loading, error, rankFilter, searchFilter, sortVars,
                   currentPage, fetchVars>>
    /\ Render(data)

\* onChange={(e) => setSearchFilter(e.target.value)}
SetSearchFilter(text) ==
    /\ Rendered
    /\ searchFilter' = text
    /\ UNCHANGED <<loading, error, rankFilter, percentileFilter, sortVars,
                   currentPage, fetchVars>>
    /\ Render(data)

\* a click on the other header that keeps the order in use
handleSort_keepOrder(field) ==
    /\ Rendered
    /\ IF field = sortField
       THEN /\ sortOrder' = (IF sortOrder = "asc" THEN "desc" ELSE "asc")
            /\ UNCHANGED sortField
       ELSE /\ sortField' = field
            /\ UNCHANGED sortOrder
    /\ currentPage' = 1
    /\ UNCHANGED <<loading, error, filterVars, fetchVars>>
    /\ Render(data)

\* the click on a column header
handleSort(field) ==
    /\ Rendered
    /\ IF field = sortField
       THEN /\ sortOrder' = (IF sortOrder = "asc" THEN "desc" ELSE "asc")
            /\ UNCHANGED sortField
       ELSE /\ sortField' = field
            /\ sortOrder' = "asc"
    /\ currentPage' = 1
    /\ UNCHANGED <<loading, error, filterVars, fetchVars>>
    /\ Render(data)

\* a clear that forgets the search box
clearFilters_keepSearch ==
    /\ Rendered
    /\ rankFilter # <<>> \/ percentileFilter # <<>> \/ searchFilter # <<>>
    /\ rankFilter' = <<>>
    /\ percentileFilter' = <<>>
    /\ currentPage' = 1
    /\ UNCHANGED <<loading, error, searchFilter, sortVars, fetchVars>>
    /\ Render(data)

hasActiveFilters == rankFilter # <<>> \/ percentileFilter # <<>> \/ searchFilter # <<>>

\* the Clear All button, shown when hasActiveFilters
clearFilters ==
    /\ Rendered
    /\ hasActiveFilters
    /\ rankFilter' = <<>>
    /\ percentileFilter' = <<>>
    /\ searchFilter' = <<>>
    /\ currentPage' = 1
    /\ UNCHANGED <<loading, error, sortVars, fetchVars>>
    /\ Render(data)

\* the Previous button, shown when totalPages > 1, disabled on page 1
Previous ==
    /\ Rendered
    /\ totalPages > 1
    /\ currentPage # 1
    /\ currentPage' = Max(currentPage - 1, 1)
    /\ UNCHANGED <<loading, error, filterVars, sortVars, fetchVars>>
    /\ Render(data)

\* the Next button, shown when totalPages > 1, disabled on page totalPages
NextPage ==
    /\ Rendered
    /\ totalPages > 1
    /\ currentPage # totalPages
    /\ currentPage' = Min(currentPage + 1, totalPages)
    /\ UNCHANGED <<loading, error, filterVars, sortVars, fetchVars>>
    /\ Render(data)

Next ==
    \/ Mount
    \/ FetchRejects
    \/ \E ok \in BOOLEAN : FetchResolves(ok)
    \/ JsonThrows
    \/ \E body \in Bodies : JsonResolves(body)
    \/ Retry
    \/ \E text \in RankInputs : SetRankFilter(text)
    \/ \E text \in PercentileInputs : SetPercentileFilter(text)
    \/ \E text \in SearchInputs : SetSearchFilter(text)
    \/ \E field \in SortFields : handleSort(field)
    \/ clearFilters
    \/ Previous
    \/ NextPage

Spec == Init /\ [][Next]_vars

\* the effect runs after the mount, and every request that was issued settles:
\* the awaited fetch resolves or rejects, the awaited body parses or throws
FairSpec ==
    /\ Spec
    /\ WF_vars(Mount)
    /\ WF_vars(FetchRejects \/ \E ok \in BOOLEAN : FetchResolves(ok))
    /\ WF_vars(JsonThrows \/ \E body \in Bodies : JsonResolves(body))

(***************************************************************************)
(* The server: the two handlers of /api/cutoffs.                           *)
(***************************************************************************)
\* a request arrives at a handler that is not serving one
Arrives(which, m) ==
    /\ spc \in {"idle", "done"}
    /\ route' = which
    /\ method' = m
    /\ upstreamOutcome' = "none"
    /\ upstreamData' = NoData
    /\ UNCHANGED clientVars

\* the try block begins: await fetch(the Drive URL)
tryFetch ==
    /\ upstreamCalls' = 1
    /\ spc' = "await_fetch"

\* a method test without return: the 405 is sent and the handler goes on
handler_noReturn(m) ==
    /\ Arrives("handler", m)
    /\ responses' = IF m # "GET"
                    THEN <<Response(405, ErrorBody("Method not allowed", ""))>>
                    ELSE <<>>
    /\ tryFetch

\* the serverless function: 405 for any method but GET, else the try block
handler(m) ==
    /\ Arrives("handler", m)
    /\ IF m # "GET"
       THEN /\ responses' = <<Response(405, ErrorBody("Method not allowed", ""))>>
            /\ upstreamCalls' = 0
            /\ spc' = "done"
       ELSE /\ responses' = <<>>
            /\ tryFetch

\* the express handler: it has no method test, the try block begins at once
handleCutoffs(m) ==
    /\ Arrives("handleCutoffs", m)
    /\ responses' = <<>>
    /\ tryFetch

\* catch (error): res.status(500).json({ error, message })
catch(outcome) ==
    /\ upstreamOutcome' = outcome
    /\ responses' = Append(responses,
                           Response(500, ErrorBody("Failed to fetch cutoffs data", outcome)))
    /\ spc' = "done"
    /\ UNCHANGED <<route, method, upstreamCalls, upstreamData, clientVars>>

\* await fetch(...) throws
UpstreamRejects ==
    /\ spc = "await_fetch"
    /\ catch("rejected")

\* await fetch(...) returns a response; if (!response.ok) throw
UpstreamResolves(ok) ==
    /\ spc = "await_fetch"
    /\ IF ok
       THEN /\ spc' = "await_json"
            /\ UNCHANGED <<route, method, upstreamCalls, upstreamOutcome,
                           upstreamData, responses, clientVars>>
       ELSE catch("notok")

\* await response.json() throws
UpstreamJsonThrows ==
    /\ spc = "await_json"
    /\ catch("throws")

\* await response.json() returns data; the headers are set and
\* res.status(200).json(data) (res.json(data) in the express handler)
UpstreamJsonResolves(body) ==
    /\ spc = "await_json"
    /\ upstreamOutcome' = "parsed"
    /\ upstreamData' = body
    /\ responses' = Append(responses, Response(200, body))
    /\ spc' = "done"
    /\ UNCHANGED <<route, method, upstreamCalls, clientVars>>

ServerNext ==
    \/ \E m \in Methods : handler(m)
    \/ \E m \in Methods : handleCutoffs(m)
    \/ UpstreamRejects
    \/ \E ok \in BOOLEAN : UpstreamResolves(ok)
    \/ UpstreamJsonThrows
    \/ \E body \in Bodies : UpstreamJsonResolves(body)

\* the handlers serve requests, and the upstream fetch and its body settle
ServerSpec ==
    /\ Init
    /\ [][ServerNext]_vars
    /\ WF_vars(UpstreamRejects \/ \E ok \in BOOLEAN : UpstreamResolves(ok))
    /\ WF_vars(UpstreamJsonThrows \/ \E body \in Bodies : UpstreamJsonResolves(body))

TypeOK ==
    /\ data.kind \in {"array", "object"}
    /\ loading \in BOOLEAN
    /\ error \in {Null, AllFailedMessage}
    /\ rankFilter \in RankInputs
    /\ percentileFilter \in PercentileInputs
    /\ searchFilter \in SearchInputs
    /\ sortField \in SortFields
    /\ sortOrder \in SortOrders
    /\ currentPage \in Nat
    /\ totalPages \in Nat
    /\ pc \in {"mount", "await_fetch", "await_json", "done"}
    /\ cand \in 0..Len(Candidates)

(***************************************************************************)
(* What the criteria on screen mean, stated without the code's parsing.    *)
(***************************************************************************)
Range(s) == {s[i] : i \in DOMAIN s}

RankEntry == CHOOSE e \in RankEntries : e.text = rankFilter
PercentileEntry == CHOOSE e \in PercentileEntries : e.text = percentileFilter
SearchEntry == CHOOSE e \in SearchEntries : e.text = searchFilter

PassesThreshold(item) ==
    \/ PercentileEntry.set /\ item.Percentile <= PercentileEntry.value
    \/ RankEntry.set /\ item.Rank >= RankEntry.value
    \/ ~PercentileEntry.set /\ ~RankEntry.set

SameLetter(c, lower) == c = lower \/ (c \in DOMAIN UpperToLower /\ UpperToLower[c] = lower)

ContainsFold(name, needle) ==
    \E i \in 1..(Len(name) - Len(needle) + 1) :
        \A k \in 1..Len(needle) : SameLetter(name[i + k - 1], needle[k])

NameText(name) == IF name = Undefined THEN <<>> ELSE name

PassesSearch(item) ==
    \/ ~SearchEntry.applied
    \/ ContainsFold(NameText(item.InstituteName), SearchEntry.needle)
    \/ ContainsFold(NameText(item.CourseName), SearchEntry.needle)

Matching == {i \in DOMAIN data.items :
                PassesThreshold(data.items[i]) /\ PassesSearch(data.items[i])}

Loaded == data.kind = "array"

(***************************************************************************)
(* Claims.                                                                 *)
(***************************************************************************)

\* C1: the threshold stage keeps exactly the records that meet at least one
\* of the thresholds that are set (percentile <= the percentile threshold,
\* rank >= the rank threshold), and every record when none is set.
C1_ThresholdInclusiveOr ==
    Loaded =>
        thresholdStage(data.items, rankFilter, percentileFilter)
            = SelectSeq(data.items, PassesThreshold)

\* C1 witness: thresholds 90 and 1000, {rank 500, percentile 95} is left out
\* and {rank 5000, percentile 95} is shown.
C1_Witness ==
    /\ Rendered
    /\ rankFilter = <<"1", "0", "0", "0">>
    /\ percentileFilter = <<"9", "0">>
    /\ searchFilter = <<>>
    /\ \E i, j \in DOMAIN data.items :
          /\ data.items[i].Rank = 500 /\ data.items[i].Percentile = 9500
          /\ data.items[j].Rank = 5000 /\ data.items[j].Percentile = 9500
          /\ data.items[i] \notin Range(filteredAndSortedData)
          /\ data.items[j] \in Range(filteredAndSortedData)

\* C2: the number of results is the number of records that pass the
\* threshold stage and the search stage; for the dataset with ranks 1, 2,
\* 50000 and rank threshold 10 only the rank-50000 record is left, on one page.
C2_TotalMatchesIsConjunction ==
    Loaded =>
        /\ Len(filteredAndSortedData) = Cardinality(Matching)
        /\ (/\ data.items = ExampleData
            /\ rankFilter = <<"1", "0">>
            /\ percentileFilter = <<>>
            /\ ~SearchEntry.applied)
           => /\ filteredAndSortedData = <<ExampleData[3]>>
              /\ totalPages = 1

\* C2 witness: both stages are active, each rejects a record the other one
\* accepts, and some record passes both.
C2_Witness ==
    /\ Rendered
    /\ RankEntry.set
    /\ SearchEntry.applied
    /\ \E i, j \in DOMAIN data.items :
          /\ PassesThreshold(data.items[i]) /\ ~PassesSearch(data.items[i])
          /\ ~PassesThreshold(data.items[j]) /\ PassesSearch(data.items[j])
    /\ Len(filteredAndSortedData) >= 1

\* C3: page p of the result is its elements at 0-based positions
\* (p-1)*20 .. p*20-1 that exist, for every p >= 1 (nothing is clamped: a page
\* past the last is empty); totalPages is ceil(matches/20), 0 for no match;
\* 41 matches make 3 pages, page 3 has 1 record and page 4 none.
C3_Pagination ==
    Loaded =>
        LET n == Len(filteredAndSortedData)
            PageIs(v, p) ==
                /\ Len(v) = Max(0, Min(itemsPerPage, n - (p - 1) * itemsPerPage))
                /\ \A k \in 1..Len(v) :
                      v[k] = filteredAndSortedData[(p - 1) * itemsPerPage + k]
        IN  /\ PageIs(paginatedData, currentPage)
            /\ \A p \in 1..MaxPage : PageIs(PaginatedData(filteredAndSortedData, p), p)
            /\ totalPages * itemsPerPage >= n
            /\ (totalPages - 1) * itemsPerPage < n \/ (n = 0 /\ totalPages = 0)
            /\ n = 41 => /\ totalPages = 3
                         /\ Len(PaginatedData(filteredAndSortedData, 3)) = 1
                         /\ PaginatedData(filteredAndSortedData, 4) = <<>>

\* C3 witness: the last of three pages is shown and it is not full.
C3_Witness ==
    /\ Rendered
    /\ totalPages = 3
    /\ currentPage = 3
    /\ Len(paginatedData) \in 1..(itemsPerPage - 1)
    /\ paginatedData[1] = filteredAndSortedData[2 * itemsPerPage + 1]

\* C4: the result is in non-decreasing order of the sort field when the
\* order is ascending and in non-increasing order when it is descending, and
\* records with the same value of the field are in the order of the dataset.
C4_StableNumericSort ==
    Loaded =>
        LET out == filteredAndSortedData
            in  == searchStage(thresholdStage(data.items, rankFilter, percentileFilter),
                               searchFilter)
            SameKeyOf(s, v) ==
                LET same(item) == item[sortField] = v IN SelectSeq(s, same)
        IN  /\ \A i \in 1..(Len(out) - 1) :
                  IF sortOrder = "asc"
                  THEN out[i][sortField] <= out[i + 1][sortField]
                  ELSE out[i][sortField] >= out[i + 1][sortField]
            /\ \A i \in DOMAIN in :
                  SameKeyOf(out, in[i][sortField]) = SameKeyOf(in, in[i][sortField])

\* C4 witness: a descending result holds two different records with the same
\* value of the sort field next to records with other values.
C4_Witness ==
    /\ Rendered
    /\ sortOrder = "desc"
    /\ \E i, j \in DOMAIN filteredAndSortedData :
          /\ i < j
          /\ filteredAndSortedData[i] # filteredAndSortedData[j]
          /\ filteredAndSortedData[i][sortField] = filteredAndSortedData[j][sortField]
    /\ \E i, j \in DOMAIN filteredAndSortedData :
          filteredAndSortedData[i][sortField] > filteredAndSortedData[j][sortField]

\* C5: the search stage keeps every record when the search text is empty
\* after trimming; otherwise it keeps the records whose institute name or
\* course name contains the trimmed text, letter case ignored.
C5_TextSearch ==
    Loaded =>
        searchStage(data.items, searchFilter) = SelectSeq(data.items, PassesSearch)

\* C5 witness: a search text with blanks and a capital around it keeps a
\* record whose name has the text in another case and drops another record.
C5_Witness ==
    /\ Rendered
    /\ searchFilter = <<" ", "a", "B", " ">>
    /\ rankFilter = <<>>
    /\ percentileFilter = <<>>
    /\ \E i, j \in DOMAIN data.items :
          /\ data.items[i].InstituteName = <<"A", "b">>
          /\ data.items[i] \in Range(filteredAndSortedData)
          /\ data.items[j] \notin Range(filteredAndSortedData)

\* C6: a step that changes the rank threshold, the percentile threshold,
\* the search text or the sort criteria ends on page 1.
C6_CriteriaChangeResetsPage ==
    [][(filterVars' # filterVars \/ sortVars' # sortVars) => currentPage' = 1]_vars

\* C7: once the dataset is on screen the page number is within range:
\* 1 <= currentPage <= max(1, totalPages).
C7_PageWithinRange ==
    Rendered => (1 <= currentPage /\ currentPage <= Max(1, totalPages))

\* C8 (as stated): the clear action empties the three filters, goes to page 1
\* and shows the full dataset in the default sort, rank ascending.
C8_ClearRestoresDefaultSortedView ==
    [][clearFilters =>
          /\ rankFilter' = <<>> /\ percentileFilter' = <<>> /\ searchFilter' = <<>>
          /\ currentPage' = 1
          /\ filteredAndSortedData' = sort(data.items, "Rank", "asc")]_vars

\* C8 (amended): the clear action empties the three filters, goes to page 1,
\* leaves the sort criteria as they are and shows the full dataset in the
\* sort that is selected.
C8_ClearRestoresFullViewInCurrentSort ==
    [][clearFilters =>
          /\ rankFilter' = <<>> /\ percentileFilter' = <<>> /\ searchFilter' = <<>>
          /\ currentPage' = 1
          /\ sortVars' = sortVars
          /\ filteredAndSortedData' = sort(data.items, sortField, sortOrder)
          /\ Len(filteredAndSortedData') = Len(data.items)
          /\ paginatedData' = slice(filteredAndSortedData', 0, itemsPerPage)]_vars

\* C8 witness: the full dataset is on page 1 with no filter, sorted by
\* percentile downwards, which differs from its order by rank upwards.
C8_Witness ==
    /\ Rendered
    /\ ~hasActiveFilters
    /\ currentPage = 1
    /\ sortField = "Percentile" /\ sortOrder = "desc"
    /\ Len(filteredAndSortedData) = Len(data.items)
    /\ filteredAndSortedData # sort(data.items, "Rank", "asc")

\* C9: the candidates are requested in the fixed order, each at most once
\* per load and never two at a time; a candidate is requested only in the
\* step in which the one before it fails, and none after one has succeeded.
C9_SequentialFallback ==
    /\ [](/\ requests = SubSeq(Candidates, 1, Len(requests))
          /\ Len(requests) - settled \in {0, 1})
    /\ [][/\ (requests' # requests /\ requests # <<>> /\ requests' # <<>>) =>
                /\ requests' = Append(requests, Candidates[Len(requests) + 1])
                /\ settled' = Len(requests)
                /\ lastOutcome' \in {"rejected", "notok", "throws", "object"}
          /\ lastOutcome = "array" => requests' = requests]_vars

\* C9 witness: the direct fetch, the last candidate, has delivered the
\* dataset after the four before it failed.
C9_Witness ==
    /\ Rendered
    /\ requests = Candidates
    /\ settled = Len(Candidates)
    /\ lastOutcome = "array"
    /\ data.items # <<>>

\* C10: a body that is not an array never becomes the dataset: the dataset
\* state is always an array.
C10_DatasetAlwaysArray ==
    data.kind = "array"

\* C11: when every candidate has failed (request rejected, status not ok, or
\* a body that does not parse to an array) the load ends with the error
\* message and no data; whenever the error is set the dataset is still the
\* empty initial array.
C11_AllFailedEndsInError ==
    /\ (pc = "done" /\ settled = Len(Candidates) /\ lastOutcome # "array")
          => (error = AllFailedMessage /\ data = ArrayBody(<<>>))
    /\ error # Null => data = ArrayBody(<<>>)

\* C13: on an array of records whose institute and course names may be
\* absent the pipeline does not throw, and an absent name counts as the empty
\* string: with a search applied a record without institute name is kept
\* exactly when its course name contains the search text, so it is dropped
\* when both names are absent.
C13_AbsentNamesTolerated ==
    Loaded =>
        /\ ~crashed
        /\ SearchEntry.applied =>
              \A i \in DOMAIN data.items :
                  data.items[i].InstituteName = Undefined =>
                      (data.items[i] \in Range(searchStage(data.items, searchFilter))
                         <=> /\ data.items[i].CourseName # Undefined
                             /\ ContainsFold(data.items[i].CourseName, SearchEntry.needle))

\* C13 witness: a search is applied to a dataset with a record that has
\* neither name and is dropped and a record without institute name that is
\* kept for its course name.
C13_Witness ==
    /\ Rendered
    /\ SearchEntry.applied
    /\ rankFilter = <<>> /\ percentileFilter = <<>>
    /\ \E i, j \in DOMAIN data.items :
          /\ data.items[i].InstituteName = Undefined
          /\ data.items[i].CourseName = Undefined
          /\ data.items[i] \notin Range(filteredAndSortedData)
          /\ data.items[j].InstituteName = Undefined
          /\ data.items[j].CourseName # Undefined
          /\ data.items[j] \in Range(filteredAndSortedData)

\* C14: recomputing the pipeline changes nothing but its own output: the
\* dataset changes only when a source delivers it (or the page is reloaded)
\* and keeps its records in their order through every later render, whatever
\* filters are set; filter criteria, sort criteria and page number change only
\* in a step of a handler of the rendered page (or the reload).
C14_PipelineFrame ==
    [][/\ data' # data =>
            \/ pc = "await_json" /\ pc' = "done"
            \/ error # Null /\ pc' = "mount"
       /\ (filterVars' # filterVars \/ sortVars' # sortVars \/ currentPage' # currentPage) =>
            \/ Rendered /\ fetchVars' = fetchVars /\ loading' = loading /\ error' = error
            \/ error # Null /\ pc' = "mount"]_vars

\* C14 witness: an unfiltered dataset is shown sorted by percentile downwards
\* while the dataset itself is still in the order it was delivered in.
C14_Witness ==
    /\ Rendered
    /\ ~hasActiveFilters
    /\ data.items = BigData
    /\ sortField = "Percentile" /\ sortOrder = "desc"
    /\ Len(filteredAndSortedData) = Len(data.items)
    /\ filteredAndSortedData # data.items
    /\ currentPage = 2

\* C15: a click on the header of the selected sort field flips the order and
\* keeps the field (so a second click restores the criteria), a click on the
\* other header selects it with order ascending; either click sets the page
\* number to 1 and leaves the filter criteria alone; and the sort criteria
\* of the rendered page change in no other way.
C15_SortHeaderStateMachine ==
    [][/\ \A field \in SortFields :
              handleSort(field) =>
                  /\ IF field = sortField
                     THEN /\ sortField' = sortField
                          /\ sortOrder' \in SortOrders \ {sortOrder}
                     ELSE /\ sortField' = field
                          /\ sortOrder' = "asc"
                  /\ currentPage' = 1
                  /\ filterVars' = filterVars
       /\ (Rendered /\ sortVars' # sortVars) =>
              \E field \in SortFields : handleSort(field)]_vars

\* C15 witness: on the large dataset with a rank filter, the percentile
\* header was clicked twice: percentile descending, on page 1 of several.
C15_Witness ==
    /\ Rendered
    /\ data.items = BigData
    /\ rankFilter # <<>>
    /\ sortField = "Percentile" /\ sortOrder = "desc"
    /\ totalPages > 1
    /\ currentPage = 1

\* C16: the error view is left only by the retry, which puts the session back
\* in the loading state with the error cleared and no request issued yet,
\* whichever candidate failed last; and the first request of every load,
\* the one after a retry included, is the one to the local endpoint.
C16_RetryRestartsFromFirstCandidate ==
    /\ [](requests # <<>> => requests[1] = Candidates[1])
    /\ [][/\ (error # Null /\ (error' # error \/ loading' # loading \/ pc' # pc)) =>
                /\ loading'
                /\ error' = Null
                /\ pc' = "mount"
                /\ cand' = 0
                /\ requests' = <<>>
                /\ settled' = 0
          /\ (pc = "mount" /\ pc' # pc) =>
                /\ loading'
                /\ error' = Null
                /\ cand' = 1
                /\ requests' = <<Candidates[1]>>]_vars

\* C16 witness: the error view with its Retry button, after a load in which
\* the last candidate to fail was the direct fetch of the remote file; the
\* retry is enabled there.
C16_Witness ==
    /\ ~loading
    /\ error = AllFailedMessage
    /\ cand = Len(Candidates)
    /\ Candidates[cand] = "direct"
    /\ requests = Candidates
    /\ lastOutcome = "notok"
    /\ ENABLED Retry

\* C17: no click on an enabled pagination control moves the page below 1 or
\* beyond totalPages (Previous is disabled on the first page, Next on the
\* last page).
C17_ControlsKeepPageInRange ==
    [][(Previous \/ NextPage) =>
           /\ 1 <= currentPage'
           /\ currentPage' <= totalPages']_vars

\* C18: a click on Next never decreases the page number and moves forward by
\* exactly one page when the control is enabled; a click on Previous never
\* increases it.
C18_NextForwardPreviousBackward ==
    [][/\ NextPage => currentPage' = currentPage + 1
       /\ Previous => currentPage' <= currentPage]_vars

RECURSIVE PagesUpTo(_, _)
\* the pages 1..p of a result, one after the other
PagesUpTo(filtered, p) ==
    IF p = 0 THEN <<>>
    ELSE PagesUpTo(filtered, p - 1) \o PaginatedData(filtered, p)

\* C20: the pages partition the result: pages 1..totalPages one after the
\* other are exactly the sorted filtered sequence, every page before the last
\* has 20 records, the last has between 1 and 20, and no record is on two
\* pages (the records of a dataset of several pages are distinct).
C20_PagesPartitionResult ==
    Loaded =>
        LET page(p) == PaginatedData(filteredAndSortedData, p)
        IN  /\ totalPages = TotalPages(filteredAndSortedData)
            /\ PagesUpTo(filteredAndSortedData, totalPages) = filteredAndSortedData
            /\ \A p \in 1..(totalPages - 1) : Len(page(p)) = itemsPerPage
            /\ totalPages >= 1 => Len(page(totalPages)) \in 1..itemsPerPage
            /\ \A p, q \in 1..totalPages :
                   p < q => Range(page(p)) \cap Range(page(q)) = {}

\* C20 witness: a search leaves 40 of the 61 records: two pages, and the
\* last one, on screen, is full.
C20_Witness ==
    /\ Rendered
    /\ data.items = BigData
    /\ searchFilter # <<>>
    /\ Len(filteredAndSortedData) = 2 * itemsPerPage
    /\ totalPages = 2
    /\ currentPage = 2
    /\ Len(paginatedData) = itemsPerPage

\* C19: when every issued request settles, a load terminates: loading always
\* becomes false again; no load issues more than five requests; and when
\* loading is false every request has settled and exactly one holds: the
\* dataset was set from the body of the last candidate tried and error is
\* null, or error is set, all five candidates were tried and the dataset is
\* empty.
C19_LoadTerminates ==
    /\ loading ~> ~loading
    /\ [](Len(requests) <= Len(Candidates))
    /\ [](~loading =>
            /\ pc = "done"
            /\ settled = Len(requests)
            /\ \/ /\ error = Null
                  /\ data \in Bodies
                  /\ lastOutcome = data.kind
               \/ /\ error = AllFailedMessage
                  /\ data = ArrayBody(<<>>)
                  /\ requests = Candidates
                  /\ lastOutcome \in {"rejected", "notok", "throws", "object"})

\* C19 witness: a load that ended at the third candidate, after the first
\* two had failed: loading is false, three requests, error null.
C19_Witness ==
    /\ ~loading
    /\ error = Null
    /\ Len(requests) = 3
    /\ settled = 3
    /\ lastOutcome = "array"
    /\ data.items = ExampleData

\* C21: a second threshold only widens the result: with both thresholds
\* entered, the set of records the threshold stage keeps is the union of the
\* set it keeps with the rank threshold alone and the set it keeps with the
\* percentile threshold alone, hence a superset of each.
C21_SecondThresholdWidens ==
    (Loaded /\ rankFilter # <<>> /\ percentileFilter # <<>>) =>
        LET both     == Range(thresholdStage(data.items, rankFilter, percentileFilter))
            onlyRank == Range(thresholdStage(data.items, rankFilter, <<>>))
            onlyPct  == Range(thresholdStage(data.items, <<>>, percentileFilter))
        IN  /\ both = onlyRank \cup onlyPct
            /\ onlyRank \subseteq both
            /\ onlyPct \subseteq both

\* C21 witness: on the large dataset both thresholds are entered and the
\* records kept are strictly more than with either threshold alone.
C21_Witness ==
    /\ Rendered
    /\ data.items = BigData
    /\ rankFilter # <<>> /\ percentileFilter # <<>>
    /\ searchFilter = <<>>
    /\ Len(filteredAndSortedData)
           > Len(thresholdStage(data.items, rankFilter, <<>>))
    /\ Len(filteredAndSortedData)
           > Len(thresholdStage(data.items, <<>>, percentileFilter))
    /\ Len(filteredAndSortedData) < Len(data.items)

\* how many times each record occurs in a sequence
BagOf(s) == [x \in Range(s) |-> Cardinality({i \in DOMAIN s : s[i] = x})]

\* C22: the pipeline neither invents, duplicates nor alters records: the
\* result holds exactly the dataset records that pass both filter stages,
\* each as many times as the dataset holds it; and a change of the sort
\* criteria alone leaves the records of the result, their number and the
\* number of pages as they were.
C22_ResultIsPermutationOfMatches ==
    /\ [](Loaded =>
            LET passes(item) == PassesThreshold(item) /\ PassesSearch(item)
            IN  BagOf(filteredAndSortedData) = BagOf(SelectSeq(data.items, passes)))
    /\ [][(Loaded /\ data' = data /\ filterVars' = filterVars /\ sortVars' # sortVars) =>
              /\ BagOf(filteredAndSortedData') = BagOf(filteredAndSortedData)
              /\ Len(filteredAndSortedData') = Len(filteredAndSortedData)
              /\ totalPages' = totalPages]_vars

\* C22 witness: a dataset that holds the same record twice, searched for a
\* text that record matches and sorted downwards: the result holds it twice.
C22_Witness ==
    /\ Rendered
    /\ Len(data.items) = 2
    /\ data.items[1] = data.items[2]
    /\ SearchEntry.applied
    /\ sortOrder = "desc"
    /\ filteredAndSortedData = data.items

====
